---------------------------- MODULE Spec2Model ----------------------------
(***************************************************************************)
(* Model of src/services/gemini.ts: the three asynchronous service calls   *)
(* detectIngredientsFromImage, generateRecipes and generateRecipeImage.    *)
(*                                                                         *)
(* Every invocation is a call c.  An async function runs in two atomic     *)
(* steps: from its entry up to the `await ai.models.generateContent(...)`  *)
(* (the request is put in flight), and from the settlement of that promise *)
(* to the end of the function (a returned value, or a thrown error that    *)
(* rejects the function's own promise).                                    *)
(*                                                                         *)
(* Strings whose characters matter (response texts, recipe titles) are     *)
(* sequences of one-character strings; JSON texts are sequences of lexical *)
(* tokens.  A value that may be `undefined` is None or Some(v).            *)
(***************************************************************************)
EXTENDS Integers, Sequences, FiniteSets, TLC

VARIABLES
    pc,        \* pc[c]: "idle", "awaiting", "returned" or "failed"
    op,        \* op[c]: the function call c runs ("none" before it starts)
    title,     \* title[c]: recipeTitle of a generateRecipeImage call
    inflight,  \* inflight[c]: the request call c awaits, None when none
    requests,  \* requests[c]: generateContent requests issued by call c
    clients,   \* number of GoogleGenAI handles constructed by getAI
    response,  \* response[c]: what the awaited promise settled with
    outcome    \* outcome[c]: value returned or error thrown by call c

vars == <<pc, op, title, inflight, requests, clients, response, outcome>>

----------------------------------------------------------------------------
(* Bounds of the model.                                                     *)

NCalls == 2
MaxTextLen == 4
MaxJsonLen == 5
MaxParts == 2
MaxCandidates == 2
MaxRetries == 1

Calls == 1..NCalls

----------------------------------------------------------------------------
(* Optional values, outcomes of a call, settlements of the awaited promise. *)

None == [some |-> FALSE]
Some(v) == [some |-> TRUE, val |-> v]

Value(v) == [tag |-> "value", val |-> v]
Error(e) == [tag |-> "error", err |-> e]
Pending == [tag |-> "pending"]

Fulfilled(r) == [settled |-> "fulfilled", res |-> r]
Rejected(e) == [settled |-> "rejected", reason |-> e]

\* Reasons the service request itself can fail with.
ServiceErrors == {"network", "quota"}

\* All sequences over S of length at most n.
SeqsUpTo(S, n) == UNION {[1..k -> S] : k \in 0..n}

----------------------------------------------------------------------------
(* getAI: every call constructs a fresh client handle.                      *)

getAI == clients + 1

----------------------------------------------------------------------------
(* detectIngredientsFromImage                                               *)

Comma == ","
WhiteSpace == {" ", "\t"}
TextChars == {"a", "b", Comma, " ", "\t"}
Texts == SeqsUpTo(TextChars, MaxTextLen)
Images == {"img1"}

detectPrompt == "Identify all individual food ingredients visible in this refrigerator or pantry photo. Return only a comma-separated list of the items. Do not include containers, brands, or adjectives like 'fresh' or 'large' unless necessary."

\* `response.text || ""`: an absent text and the empty text both give "".
TextOrEmpty(t) == IF t.some /\ t.val # <<>> THEN t.val ELSE <<>>

RECURSIVE SplitFrom(_, _, _)
\* String.prototype.split(','): scanning from position i with the current
\* segment cur; n commas give n+1 segments, the empty string gives [""].
SplitFrom(s, i, cur) ==
    IF i > Len(s) THEN <<cur>>
    ELSE IF s[i] = Comma THEN <<cur>> \o SplitFrom(s, i + 1, <<>>)
    ELSE SplitFrom(s, i + 1, Append(cur, s[i]))

Split(s) == SplitFrom(s, 1, <<>>)

RECURSIVE TrimStart(_)
TrimStart(s) ==
    IF s # <<>> /\ Head(s) \in WhiteSpace THEN TrimStart(Tail(s)) ELSE s

RECURSIVE TrimEnd(_)
TrimEnd(s) ==
    IF s # <<>> /\ s[Len(s)] \in WhiteSpace
    THEN TrimEnd(SubSeq(s, 1, Len(s) - 1)) ELSE s

\* String.prototype.trim()
Trim(s) == TrimEnd(TrimStart(s))

\* .map(i => i.trim())
MapTrim(segs) == [k \in 1..Len(segs) |-> Trim(segs[k])]

\* FilterNonEmpty without the filter.
FilterNonEmpty_keepAll(segs) == segs

\* .filter(i => i.length > 0)
FilterNonEmpty(segs) == SelectSeq(segs, LAMBDA x : Len(x) > 0)

\* ParseIngredients with the filter applied before the trim.
ParseIngredients_filterBeforeTrim(t) ==
    MapTrim(FilterNonEmpty(Split(TextOrEmpty(t))))

\* Lines 23-24: the list returned for a fulfilled response.
ParseIngredients(t) == FilterNonEmpty(MapTrim(Split(TextOrEmpty(t))))

\* Lines 7-21: entry of the function up to the await.
detectIngredientsFromImage(c, base64Image) ==
    /\ pc[c] = "idle"
    /\ clients' = getAI
    /\ pc' = [pc EXCEPT ![c] = "awaiting"]
    /\ op' = [op EXCEPT ![c] = "detectIngredientsFromImage"]
    /\ inflight' = [inflight EXCEPT ![c] =
           Some([client |-> getAI,
                 model |-> "gemini-3-flash-preview",
                 parts |-> <<[inlineData |-> [mimeType |-> "image/jpeg",
                                              data |-> base64Image]],
                             [text |-> detectPrompt]>>])]
    /\ requests' = [requests EXCEPT ![c] = @ + 1]
    /\ UNCHANGED <<title, response, outcome>>

\* Lines 18-24: the awaited promise is fulfilled with a response whose text
\* is t (None when the response has no text).
detectIngredientsFromImage_fulfilled(c, t) ==
    /\ pc[c] = "awaiting"
    /\ op[c] = "detectIngredientsFromImage"
    /\ inflight' = [inflight EXCEPT ![c] = None]
    /\ response' = [response EXCEPT ![c] = Fulfilled([text |-> t])]
    /\ outcome' = [outcome EXCEPT ![c] = Value(ParseIngredients(t))]
    /\ pc' = [pc EXCEPT ![c] = "returned"]
    /\ UNCHANGED <<op, title, requests, clients>>

\* detectIngredientsFromImage_rejected with a retry: the request is issued
\* again (at most MaxRetries times) before the error is given up on.
detectIngredientsFromImage_rejected_retry(c, e) ==
    /\ pc[c] = "awaiting"
    /\ op[c] = "detectIngredientsFromImage"
    /\ IF requests[c] <= MaxRetries
       THEN /\ requests' = [requests EXCEPT ![c] = @ + 1]
            /\ UNCHANGED <<pc, inflight, response, outcome>>
       ELSE /\ inflight' = [inflight EXCEPT ![c] = None]
            /\ response' = [response EXCEPT ![c] = Rejected(e)]
            /\ outcome' = [outcome EXCEPT ![c] = Error(e)]
            /\ pc' = [pc EXCEPT ![c] = "failed"]
            /\ UNCHANGED requests
    /\ UNCHANGED <<op, title, clients>>

\* Line 18: the awaited promise is rejected; nothing catches the error.
detectIngredientsFromImage_rejected(c, e) ==
    /\ pc[c] = "awaiting"
    /\ op[c] = "detectIngredientsFromImage"
    /\ inflight' = [inflight EXCEPT ![c] = None]
    /\ response' = [response EXCEPT ![c] = Rejected(e)]
    /\ outcome' = [outcome EXCEPT ![c] = Error(e)]
    /\ pc' = [pc EXCEPT ![c] = "failed"]
    /\ UNCHANGED <<op, title, requests, clients>>

----------------------------------------------------------------------------
(* generateRecipes: the constraint blocks of the prompt                     *)

DietaryModes == {"STANDARD", "HIGH_PROTEIN", "KETO", "UNDER_500_CAL"}
Emotions == {"COMFORT", "LIGHT", "ENERGIZED", "COZY", "LAZY", "IMPRESS"}

\* Argument values of the model: the enumerations, one value outside each,
\* and None for an omitted argument.
ModeArgs == {None} \cup {Some(m) : m \in DietaryModes \cup {"VEGAN"}}
EmotionArgs == {None} \cup {Some(e) : e \in Emotions \cup {"ANGRY"}}
IngredientLists == {<<>>, <<"egg", "milk">>}
TasteProfiles ==
    {None,
     Some([lovedRecipes |-> <<"curry", "ramen">>,
           dislikedRecipes |-> <<"liver">>,
           preferences |-> [spiceLevel |-> "hot",
                            texture |-> <<"crispy">>,
                            flavorBias |-> <<>>]])}

\* Lines 29-30: default parameter values.
ModeOrDefault(m) == IF m.some THEN m.val ELSE "STANDARD"
EmotionOrDefault(e) == IF e.some THEN e.val ELSE "COMFORT"

\* modeConstraint with the break of the HIGH_PROTEIN case missing: the case
\* falls through to KETO.
modeConstraint_fallThrough(mode) ==
    CASE mode \in {"HIGH_PROTEIN", "KETO"} ->
           "CRITICAL: Every recipe must be Ketogenic (high fat, low carb). Avoid sugars and high-starch items."
      [] mode = "UNDER_500_CAL" ->
           "CRITICAL: Every recipe must be under 500 calories per serving."
      [] OTHER ->
           "Provide balanced and delicious recipes."

\* Lines 35-48: switch(mode).
modeConstraint(mode) ==
    CASE mode = "HIGH_PROTEIN" ->
           "CRITICAL: Every recipe must be high in protein (focus on meat, eggs, beans, or dairy provided)."
      [] mode = "KETO" ->
           "CRITICAL: Every recipe must be Ketogenic (high fat, low carb). Avoid sugars and high-starch items."
      [] mode = "UNDER_500_CAL" ->
           "CRITICAL: Every recipe must be under 500 calories per serving."
      [] OTHER ->
           "Provide balanced and delicious recipes."

\* Lines 50-70: switch(emotion), no default branch.
emotionConstraint(emotion) ==
    CASE emotion = "COMFORT" ->
           "STYLE: Soul-warming, familiar, and hearty. Focus on textures that feel like a hug."
      [] emotion = "LIGHT" ->
           "STYLE: Crisp, vibrant, and clean. Focus on fresh flavors, citrus, and raw or lightly cooked elements."
      [] emotion = "ENERGIZED" ->
           "STYLE: Power-packed and balanced. Focus on high-nutrient density to provide lasting energy."
      [] emotion = "COZY" ->
           "STYLE: Slow-cooked vibes, warm spices (cinnamon, cumin, etc.), and soothing warmth."
      [] emotion = "LAZY" ->
           "STYLE: Minimum effort, maximum flavor. One-pot or 5-minute prep style. Very few steps."
      [] emotion = "IMPRESS" ->
           "STYLE: Sophisticated and gourmet. Focus on elegant presentation and unique flavor pairings to wow a guest."
      [] OTHER -> ""

RECURSIVE Join(_)
\* Array.prototype.join(', ')
Join(ss) ==
    IF ss = <<>> THEN ""
    ELSE IF Len(ss) = 1 THEN ss[1]
    ELSE ss[1] \o ", " \o Join(Tail(ss))

\* Lines 72-81: the personal palate block, "" without a profile.
tasteContext(tasteProfile) ==
    IF tasteProfile.some
    THEN "USER PERSONAL PALATE (Taste Memory): - Loved flavor patterns: "
           \o Join(tasteProfile.val.lovedRecipes)
           \o " - Avoided patterns: "
           \o Join(tasteProfile.val.dislikedRecipes)
           \o " - Preferred Spice: "
           \o tasteProfile.val.preferences.spiceLevel
           \o " - Preferred Textures: "
           \o Join(tasteProfile.val.preferences.texture)
           \o " - Flavor bias: "
           \o Join(tasteProfile.val.preferences.flavorBias)
           \o " ADJUSTMENT: Prioritize these preferences in the 3 generated options. If the user loves a specific style, reflect that in the \"Chef's Choice\" option."
    ELSE ""

\* Lines 83-109: the interpolated parts of the prompt template, in order.
recipePrompt(ingredients, mode, emotion, tasteProfile) ==
    [ingredients |-> Join(ingredients),
     mode |-> mode,
     modeConstraint |-> modeConstraint(mode),
     emotion |-> emotion,
     emotionConstraint |-> emotionConstraint(emotion),
     tasteContext |-> tasteContext(tasteProfile)]

----------------------------------------------------------------------------
(* generateRecipes: JSON.parse and the id assignment                        *)

\* JSON values.
JStr(s) == [jtype |-> "string", str |-> s]
JObj(f) == [jtype |-> "object", fields |-> f]
JArr(es) == [jtype |-> "array", elems |-> es]

\* Lexical tokens of a response text: punctuation, white space, and two
\* object literals taken as single tokens, one of them with an id member.
LBracket == "["
RBracket == "]"
JsonWs == " "
ObjA == "{\"title\":\"A\"}"
ObjB == "{\"title\":\"B\",\"id\":\"x\"}"
ObjectTokens == {ObjA, ObjB}
JsonTokens == {LBracket, RBracket, Comma, JsonWs} \cup ObjectTokens
\* A response of three recipes, the second with an id of its own.
ThreeRecipes == <<LBracket, ObjA, Comma, ObjB, Comma, ObjA, RBracket>>

\* The response texts of the model: every short text, and ThreeRecipes.
JsonTexts == SeqsUpTo(JsonTokens, MaxJsonLen) \cup {ThreeRecipes}

\* The object an object literal denotes.
ObjectOf(tok) ==
    IF tok = ObjA
    THEN JObj([k \in {"title"} |-> JStr("A")])
    ELSE JObj([k \in {"title", "id"} |->
                 IF k = "title" THEN JStr("B") ELSE JStr("x")])

ParseFail == [ok |-> FALSE]
ParseOk(v, n) == [ok |-> TRUE, val |-> v, next |-> n]

RECURSIVE SkipWs(_, _)
\* The first position at or after i that holds no white space.
SkipWs(t, i) ==
    IF i <= Len(t) /\ t[i] = JsonWs THEN SkipWs(t, i + 1) ELSE i

RECURSIVE ParseValue(_, _)
RECURSIVE ParseElements(_, _, _)
\* A JSON value starting at position i: an object literal or an array.
ParseValue(t, i) ==
    IF i > Len(t) THEN ParseFail
    ELSE IF t[i] \in ObjectTokens THEN ParseOk(ObjectOf(t[i]), i + 1)
    ELSE IF t[i] = LBracket
         THEN LET j == SkipWs(t, i + 1) IN
              IF j <= Len(t) /\ t[j] = RBracket
              THEN ParseOk(JArr(<<>>), j + 1)
              ELSE ParseElements(t, j, <<>>)
    ELSE ParseFail

\* The elements of an array from position i on, acc being those read so far.
ParseElements(t, i, acc) ==
    LET r == ParseValue(t, i) IN
    IF ~r.ok THEN ParseFail
    ELSE LET j == SkipWs(t, r.next) IN
         IF j > Len(t) THEN ParseFail
         ELSE IF t[j] = RBracket THEN ParseOk(JArr(Append(acc, r.val)), j + 1)
         ELSE IF t[j] = Comma
              THEN ParseElements(t, SkipWs(t, j + 1), Append(acc, r.val))
         ELSE ParseFail

\* JSON.parse: one value with optional white space around it, else a
\* SyntaxError (ParseFail).
JSONParse(t) ==
    LET r == ParseValue(t, SkipWs(t, 1)) IN
    IF r.ok /\ SkipWs(t, r.next) > Len(t) THEN r ELSE ParseFail

\* TextOrEmptyArray without the default: an absent text is parsed as the
\* text "undefined", an empty text as it is.
TextOrEmptyArray_noDefault(t) ==
    IF t.some THEN t.val ELSE <<"undefined">>

\* `response.text || "[]"`
TextOrEmptyArray(t) ==
    IF t.some /\ t.val # <<>> THEN t.val ELSE <<LBracket, RBracket>>

\* The own enumerable properties `...r` copies: an object's members, an
\* array's elements under their indices.
Spread(r) ==
    IF r.jtype = "object" THEN r.fields
    ELSE IF r.jtype = "array"
         THEN [k \in {ToString(n - 1) : n \in 1..Len(r.elems)} |->
                 r.elems[CHOOSE n \in 1..Len(r.elems) : ToString(n - 1) = k]]
    ELSE [k \in {} |-> k]

\* WithId with the spread after the id: ({ id: `recipe-${idx}`, ...r }).
WithId_spreadLast(r, idx) ==
    JObj([k \in DOMAIN Spread(r) \cup {"id"} |->
            IF k \in DOMAIN Spread(r) THEN Spread(r)[k]
            ELSE JStr("recipe-" \o ToString(idx))])

\* Line 170: ({ ...r, id: `recipe-${idx}` }) for the element at 0-based idx.
WithId(r, idx) ==
    JObj([k \in DOMAIN Spread(r) \cup {"id"} |->
            IF k = "id" THEN JStr("recipe-" \o ToString(idx))
            ELSE Spread(r)[k]])

\* ParseRecipes with the SyntaxError caught and an empty list returned.
ParseRecipes_catch(t) ==
    LET parsed == JSONParse(TextOrEmptyArray(t)) IN
    IF ~parsed.ok THEN Value(<<>>)
    ELSE IF parsed.val.jtype # "array" THEN Error("TypeError")
    ELSE Value([n \in 1..Len(parsed.val.elems) |->
                   WithId(parsed.val.elems[n], n - 1)])

\* Lines 169-170: the outcome for a fulfilled response with text t.
ParseRecipes(t) ==
    LET parsed == JSONParse(TextOrEmptyArray(t)) IN
    IF ~parsed.ok THEN Error("SyntaxError")
    ELSE IF parsed.val.jtype # "array" THEN Error("TypeError")
    ELSE Value([n \in 1..Len(parsed.val.elems) |->
                   WithId(parsed.val.elems[n], n - 1)])

\* Lines 27-167: entry of the function up to the await.
generateRecipes(c, ingredients, modeArg, emotionArg, tasteProfile) ==
    /\ pc[c] = "idle"
    /\ clients' = getAI
    /\ pc' = [pc EXCEPT ![c] = "awaiting"]
    /\ op' = [op EXCEPT ![c] = "generateRecipes"]
    /\ inflight' = [inflight EXCEPT ![c] =
           Some([client |-> getAI,
                 model |-> "gemini-3-flash-preview",
                 prompt |-> recipePrompt(ingredients, ModeOrDefault(modeArg),
                                         EmotionOrDefault(emotionArg),
                                         tasteProfile),
                 responseMimeType |-> "application/json"])]
    /\ requests' = [requests EXCEPT ![c] = @ + 1]
    /\ UNCHANGED <<title, response, outcome>>

\* Lines 111-170: the awaited promise is fulfilled with a response whose
\* text is t (None when the response has no text).
generateRecipes_fulfilled(c, t) ==
    /\ pc[c] = "awaiting"
    /\ op[c] = "generateRecipes"
    /\ inflight' = [inflight EXCEPT ![c] = None]
    /\ response' = [response EXCEPT ![c] = Fulfilled([text |-> t])]
    /\ LET result == ParseRecipes(t) IN
         /\ outcome' = [outcome EXCEPT ![c] = result]
         /\ pc' = [pc EXCEPT ![c] =
                      IF result.tag = "value" THEN "returned" ELSE "failed"]
    /\ UNCHANGED <<op, title, requests, clients>>

\* Line 111: the awaited promise is rejected; nothing catches the error.
generateRecipes_rejected(c, e) ==
    /\ pc[c] = "awaiting"
    /\ op[c] = "generateRecipes"
    /\ inflight' = [inflight EXCEPT ![c] = None]
    /\ response' = [response EXCEPT ![c] = Rejected(e)]
    /\ outcome' = [outcome EXCEPT ![c] = Error(e)]
    /\ pc' = [pc EXCEPT ![c] = "failed"]
    /\ UNCHANGED <<op, title, requests, clients>>

----------------------------------------------------------------------------
(* generateRecipeImage                                                      *)

\* Recipe titles of the model: characters encodeURIComponent keeps and
\* characters it escapes.
Titles == {<<>>, <<"a">>, <<" ">>, <<"&">>, <<"a", " ", "a">>, <<"a", "&", " ">>}

\* Characters encodeURIComponent leaves as they are (of those in titles).
Unreserved == {"a"}

\* The escape of a single character: %XX of its UTF-8 byte.
EncodeChar(ch) ==
    IF ch \in Unreserved THEN ch
    ELSE IF ch = " " THEN "%20"
    ELSE "%26"

RECURSIVE encodeURIComponent(_)
encodeURIComponent(s) ==
    IF s = <<>> THEN ""
    ELSE EncodeChar(Head(s)) \o encodeURIComponent(Tail(s))

\* Parts of a candidate: a text part, or an inline image with its payload.
TextPart == [inlineData |-> None, text |-> Some("Here is your image")]
InlinePart(data) == [inlineData |-> Some([data |-> data]), text |-> None]
Payloads == {"QUJD", "REVG"}
Parts == {TextPart} \cup {InlinePart(d) : d \in Payloads}

\* A candidate without content, with content without parts, with parts.
Candidates ==
    {[content |-> None], [content |-> Some([parts |-> None])]}
    \cup {[content |-> Some([parts |-> Some(ps)])] :
             ps \in SeqsUpTo(Parts, MaxParts)}

\* A response without candidates, or with a list of them.
ImageResponses ==
    {[candidates |-> None]}
    \cup {[candidates |-> Some(cs)] : cs \in SeqsUpTo(Candidates, MaxCandidates)}

RECURSIVE PartsFrom(_, _)
\* The parts of the candidates cs[i], cs[i+1], ... one after the other.
PartsFrom(cs, i) ==
    IF i > Len(cs) THEN <<>>
    ELSE (IF cs[i].content.some /\ cs[i].content.val.parts.some
          THEN cs[i].content.val.parts.val ELSE <<>>) \o PartsFrom(cs, i + 1)

\* FirstCandidateParts over every candidate instead of the first.
FirstCandidateParts_allCandidates(resp) ==
    IF ~resp.candidates.some THEN <<>> ELSE PartsFrom(resp.candidates.val, 1)

\* Line 187: response.candidates?.[0]?.content?.parts || []
FirstCandidateParts(resp) ==
    IF ~resp.candidates.some THEN <<>>
    ELSE IF Len(resp.candidates.val) = 0 THEN <<>>
    ELSE IF ~resp.candidates.val[1].content.some THEN <<>>
    ELSE IF ~resp.candidates.val[1].content.val.parts.some THEN <<>>
    ELSE resp.candidates.val[1].content.val.parts.val

\* Line 189
DataUri(part) == "data:image/png;base64," \o part.inlineData.val.data

\* Line 193
PlaceholderUrl(recipeTitle) ==
    "https://picsum.photos/seed/" \o encodeURIComponent(recipeTitle)
        \o "/600/600"

RECURSIVE ScanParts(_, _)
\* Lines 187-193: the loop over the parts, then the fallback.
ScanParts(parts, recipeTitle) ==
    IF parts = <<>> THEN PlaceholderUrl(recipeTitle)
    ELSE IF Head(parts).inlineData.some THEN DataUri(Head(parts))
    ELSE ScanParts(Tail(parts), recipeTitle)

\* Lines 173-185: entry of the function up to the await.
generateRecipeImage(c, recipeTitle) ==
    /\ pc[c] = "idle"
    /\ clients' = getAI
    /\ pc' = [pc EXCEPT ![c] = "awaiting"]
    /\ op' = [op EXCEPT ![c] = "generateRecipeImage"]
    /\ title' = [title EXCEPT ![c] = Some(recipeTitle)]
    /\ inflight' = [inflight EXCEPT ![c] =
           Some([client |-> getAI,
                 model |-> "gemini-2.5-flash-image",
                 prompt |-> [recipeTitle |-> recipeTitle],
                 aspectRatio |-> "1:1"])]
    /\ requests' = [requests EXCEPT ![c] = @ + 1]
    /\ UNCHANGED <<response, outcome>>

\* generateRecipeImage_fulfilled with the title kept in one variable shared
\* by all calls (the title of the latest call that has one).
generateRecipeImage_fulfilled_sharedTitle(c, resp) ==
    /\ pc[c] = "awaiting"
    /\ op[c] = "generateRecipeImage"
    /\ inflight' = [inflight EXCEPT ![c] = None]
    /\ response' = [response EXCEPT ![c] = Fulfilled(resp)]
    /\ LET last == CHOOSE d \in Calls :
                       /\ title[d].some
                       /\ \A e \in Calls : title[e].some => e <= d
       IN outcome' = [outcome EXCEPT ![c] =
              Value(ScanParts(FirstCandidateParts(resp), title[last].val))]
    /\ pc' = [pc EXCEPT ![c] = "returned"]
    /\ UNCHANGED <<op, title, requests, clients>>

\* Lines 177-193: the awaited promise is fulfilled with the response resp.
generateRecipeImage_fulfilled(c, resp) ==
    /\ pc[c] = "awaiting"
    /\ op[c] = "generateRecipeImage"
    /\ inflight' = [inflight EXCEPT ![c] = None]
    /\ response' = [response EXCEPT ![c] = Fulfilled(resp)]
    /\ outcome' = [outcome EXCEPT ![c] =
                      Value(ScanParts(FirstCandidateParts(resp), title[c].val))]
    /\ pc' = [pc EXCEPT ![c] = "returned"]
    /\ UNCHANGED <<op, title, requests, clients>>

\* generateRecipeImage_rejected with the error caught and the placeholder
\* returned.
generateRecipeImage_rejected_fallback(c, e) ==
    /\ pc[c] = "awaiting"
    /\ op[c] = "generateRecipeImage"
    /\ inflight' = [inflight EXCEPT ![c] = None]
    /\ response' = [response EXCEPT ![c] = Rejected(e)]
    /\ outcome' = [outcome EXCEPT ![c] = Value(PlaceholderUrl(title[c].val))]
    /\ pc' = [pc EXCEPT ![c] = "returned"]
    /\ UNCHANGED <<op, title, requests, clients>>

\* Line 177: the awaited promise is rejected; nothing catches the error.
generateRecipeImage_rejected(c, e) ==
    /\ pc[c] = "awaiting"
    /\ op[c] = "generateRecipeImage"
    /\ inflight' = [inflight EXCEPT ![c] = None]
    /\ response' = [response EXCEPT ![c] = Rejected(e)]
    /\ outcome' = [outcome EXCEPT ![c] = Error(e)]
    /\ pc' = [pc EXCEPT ![c] = "failed"]
    /\ UNCHANGED <<op, title, requests, clients>>

----------------------------------------------------------------------------

\* Call c is suspended at the await of function f.
Awaiting(c, f) == pc[c] = "awaiting" /\ op[c] = f

Init ==
    /\ pc = [c \in Calls |-> "idle"]
    /\ op = [c \in Calls |-> "none"]
    /\ title = [c \in Calls |-> None]
    /\ inflight = [c \in Calls |-> None]
    /\ requests = [c \in Calls |-> 0]
    /\ clients = 0
    /\ response = [c \in Calls |-> None]
    /\ outcome = [c \in Calls |-> Pending]

\* One invocation of detectIngredientsFromImage, over every response text.
NextExtract ==
    \/ \E img \in Images : detectIngredientsFromImage(1, img)
    \/ /\ Awaiting(1, "detectIngredientsFromImage")
       /\ \E t \in {None} \cup {Some(x) : x \in Texts} :
              detectIngredientsFromImage_fulfilled(1, t)
    \/ /\ Awaiting(1, "detectIngredientsFromImage")
       /\ \E e \in ServiceErrors : detectIngredientsFromImage_rejected(1, e)

SpecExtract == Init /\ [][NextExtract]_vars

\* A few response texts of each shape: none, empty, well-formed, truncated.
SomeTexts ==
    {None, Some(<<>>), Some(<<"a", Comma, " ", "b">>), Some(<<Comma, "a", Comma>>)}
SomeJsonTexts ==
    {None, Some(<<>>), Some(<<LBracket, RBracket>>),
     Some(<<LBracket, ObjA, Comma, ObjB, RBracket>>),
     Some(<<LBracket, ObjA, Comma>>), Some(<<ObjA>>)}
SomeImageResponses ==
    {[candidates |-> None],
     [candidates |-> Some(<<[content |-> Some([parts |-> Some(<<TextPart>>)])]>>)],
     [candidates |-> Some(<<[content |-> Some([parts |->
                                Some(<<TextPart, InlinePart("QUJD")>>)])]>>)],
     [candidates |-> Some(<<[content |-> None],
                            [content |-> Some([parts |->
                                Some(<<InlinePart("REVG")>>)])]>>)]}
SomeTitles == {<<"a">>, <<"a", " ", "a">>, <<"&">>}
DefaultArgs == {[ingredients |-> <<"egg", "milk">>, mode |-> None,
                 emotion |-> None, tasteProfile |-> None]}

\* One invocation of generateRecipes with every combination of arguments.
NextPrompt ==
    \/ \E ings \in IngredientLists, m \in ModeArgs, e \in EmotionArgs,
          tp \in TasteProfiles : generateRecipes(1, ings, m, e, tp)
    \/ /\ Awaiting(1, "generateRecipes")
       /\ \E t \in SomeJsonTexts : generateRecipes_fulfilled(1, t)
    \/ /\ Awaiting(1, "generateRecipes")
       /\ \E e \in ServiceErrors : generateRecipes_rejected(1, e)

SpecPrompt == Init /\ [][NextPrompt]_vars

\* One invocation of generateRecipes, over every response text.
NextGenerate ==
    \/ \E a \in DefaultArgs :
           generateRecipes(1, a.ingredients, a.mode, a.emotion, a.tasteProfile)
    \/ /\ Awaiting(1, "generateRecipes")
       /\ \E t \in {None} \cup {Some(x) : x \in JsonTexts} :
              generateRecipes_fulfilled(1, t)
    \/ /\ Awaiting(1, "generateRecipes")
       /\ \E e \in ServiceErrors : generateRecipes_rejected(1, e)

SpecGenerate == Init /\ [][NextGenerate]_vars

\* One invocation of generateRecipeImage, over every title and response.
NextIllustrate ==
    \/ \E rt \in Titles : generateRecipeImage(1, rt)
    \/ /\ Awaiting(1, "generateRecipeImage")
       /\ \E resp \in ImageResponses : generateRecipeImage_fulfilled(1, resp)
    \/ /\ Awaiting(1, "generateRecipeImage")
       /\ \E e \in ServiceErrors : generateRecipeImage_rejected(1, e)

SpecIllustrate == Init /\ [][NextIllustrate]_vars

\* Concurrent invocations of the three functions, in any interleaving.
Next ==
    \E c \in Calls :
        \/ \E img \in Images : detectIngredientsFromImage(c, img)
        \/ /\ Awaiting(c, "detectIngredientsFromImage")
           /\ \E t \in SomeTexts : detectIngredientsFromImage_fulfilled(c, t)
        \/ /\ Awaiting(c, "detectIngredientsFromImage")
           /\ \E e \in ServiceErrors : detectIngredientsFromImage_rejected(c, e)
        \/ \E a \in DefaultArgs :
               generateRecipes(c, a.ingredients, a.mode, a.emotion,
                               a.tasteProfile)
        \/ /\ Awaiting(c, "generateRecipes")
           /\ \E t \in SomeJsonTexts : generateRecipes_fulfilled(c, t)
        \/ /\ Awaiting(c, "generateRecipes")
           /\ \E e \in ServiceErrors : generateRecipes_rejected(c, e)
        \/ \E rt \in SomeTitles : generateRecipeImage(c, rt)
        \/ /\ Awaiting(c, "generateRecipeImage")
           /\ \E resp \in SomeImageResponses :
                  generateRecipeImage_fulfilled(c, resp)
        \/ /\ Awaiting(c, "generateRecipeImage")
           /\ \E e \in ServiceErrors : generateRecipeImage_rejected(c, e)

Spec == Init /\ [][Next]_vars

----------------------------------------------------------------------------
(* Properties                                                               *)

\* Call c ran function f to its end (a value or an error).
Done(c, f) == op[c] = f /\ pc[c] \in {"returned", "failed"}

\* Call c ran f and its request was fulfilled with a response.
Answered(c, f) == Done(c, f) /\ response[c].settled = "fulfilled"

\* The response text is absent or empty.
NoText(t) == ~t.some \/ t.val = <<>>

\* --- detectIngredientsFromImage ---

\* Positions of the commas of s, with 0 and Len(s)+1 as outer delimiters.
Delimiters(s) == {0, Len(s) + 1} \cup {i \in 1..Len(s) : s[i] = Comma}

\* The k-th smallest element of the set of numbers S.
Nth(S, k) == CHOOSE x \in S : Cardinality({y \in S : y < x}) = k - 1

\* The k-th comma-separated segment of s.
Segment(s, k) ==
    SubSeq(s, Nth(Delimiters(s), k) + 1, Nth(Delimiters(s), k + 1) - 1)

\* Positions of seg that hold no white space.
Inked(seg) == {i \in 1..Len(seg) : seg[i] \notin WhiteSpace}

\* seg from its first to its last character that is no white space.
Stripped(seg) ==
    SubSeq(seg, Nth(Inked(seg), 1), Nth(Inked(seg), Cardinality(Inked(seg))))

\* The segments of s that are not blank, by their number.
NonBlank(s) ==
    {k \in 1..(Cardinality(Delimiters(s)) - 1) : Inked(Segment(s, k)) # {}}

\* C8: for every response text, detectIngredientsFromImage returns the
\* comma-separated segments that are not blank, in their order, each without
\* its surrounding white space (duplicates kept); no element returned is
\* empty, starts or ends with white space, or holds a comma.
C8_TrimmedSegmentsInOrder ==
    \A c \in Calls :
        Answered(c, "detectIngredientsFromImage") =>
            LET s == IF response[c].res.text.some
                     THEN response[c].res.text.val ELSE <<>>
                list == outcome[c].val
            IN /\ outcome[c].tag = "value"
               /\ Len(list) = Cardinality(NonBlank(s))
               /\ \A n \in 1..Len(list) :
                      /\ list[n] = Stripped(Segment(s, Nth(NonBlank(s), n)))
                      /\ list[n] # <<>>
                      /\ list[n][1] \notin WhiteSpace
                      /\ list[n][Len(list[n])] \notin WhiteSpace
                      /\ \A i \in 1..Len(list[n]) : list[n][i] # Comma

\* A text with consecutive commas and a repeated item has been answered with
\* both occurrences of the item.
C8_Witness ==
    \E c \in Calls :
        /\ Answered(c, "detectIngredientsFromImage")
        /\ response[c].res.text = Some(<<"a", Comma, Comma, "a">>)
        /\ outcome[c] = Value(<< <<"a">>, <<"a">> >>)

PromptOf(c) == inflight[c].val.prompt

\* C9: the dietary constraint sentence in the prompt is not empty, differs
\* from the sentence of every other DietaryMode value when the mode is one
\* of the four, and is the "balanced" sentence when the mode is none of them.
C9_ModeConstraintPerMode ==
    \A c \in Calls :
        (Awaiting(c, "generateRecipes") /\ inflight[c].some) =>
            /\ PromptOf(c).modeConstraint # ""
            /\ PromptOf(c).mode \in DietaryModes =>
                   \A m \in DietaryModes \ {PromptOf(c).mode} :
                       PromptOf(c).modeConstraint # modeConstraint(m)
            /\ PromptOf(c).mode \notin DietaryModes =>
                   PromptOf(c).modeConstraint
                       = "Provide balanced and delicious recipes."

\* A request for HIGH_PROTEIN recipes is in flight with its own sentence.
C9_Witness ==
    \E c \in Calls :
        /\ Awaiting(c, "generateRecipes")
        /\ inflight[c].some
        /\ PromptOf(c).mode = "HIGH_PROTEIN"
        /\ PromptOf(c).modeConstraint
               = "CRITICAL: Every recipe must be high in protein (focus on meat, eggs, beans, or dairy provided)."

\* The text of the response call c got.
TextOf(c) == response[c].res.text

\* C1: when the response text parses as a JSON array of n elements,
\* generateRecipes returns n elements in the same order; element i (from 0)
\* has the id recipe-<i> whatever id the service gave it, and the other
\* members of an object element are returned as they came.
C1_IdsByPosition ==
    \A c \in Calls :
        (Answered(c, "generateRecipes") /\ TextOf(c).some) =>
            LET parsed == JSONParse(TextOf(c).val) IN
            (parsed.ok /\ parsed.val.jtype = "array") =>
                /\ pc[c] = "returned"
                /\ outcome[c].tag = "value"
                /\ Len(outcome[c].val) = Len(parsed.val.elems)
                /\ \A n \in 1..Len(parsed.val.elems) :
                      LET src == parsed.val.elems[n]
                          out == outcome[c].val[n]
                      IN /\ out.jtype = "object"
                         /\ "id" \in DOMAIN out.fields
                         /\ out.fields["id"] = JStr("recipe-" \o ToString(n - 1))
                         /\ src.jtype = "object" =>
                                /\ DOMAIN out.fields
                                       = DOMAIN src.fields \cup {"id"}
                                /\ \A k \in DOMAIN src.fields \ {"id"} :
                                       out.fields[k] = src.fields[k]

\* The array [A, B, A], B with an id of its own, has been returned as three
\* recipes in that order with the ids recipe-0, recipe-1 and recipe-2.
C1_Witness ==
    \E c \in Calls :
        /\ Answered(c, "generateRecipes")
        /\ TextOf(c) = Some(ThreeRecipes)
        /\ pc[c] = "returned"
        /\ Len(outcome[c].val) = 3
        /\ outcome[c].val[1].fields["title"] = JStr("A")
        /\ outcome[c].val[1].fields["id"] = JStr("recipe-0")
        /\ outcome[c].val[2].fields["title"] = JStr("B")
        /\ outcome[c].val[2].fields["id"] = JStr("recipe-1")
        /\ outcome[c].val[3].fields["title"] = JStr("A")
        /\ outcome[c].val[3].fields["id"] = JStr("recipe-2")

IsEmptyArrayText(t) ==
    t.some /\ SelectSeq(t.val, LAMBDA x : x # JsonWs) = <<LBracket, RBracket>>

Count(s, tok) == Cardinality({i \in 1..Len(s) : s[i] = tok})

\* C3: a response text that is not empty and is not JSON (among them every
\* text with unbalanced brackets) makes generateRecipes end in an error:
\* no list is returned, neither a partial nor an empty one.
C3_MalformedTextIsError ==
    \A c \in Calls :
        (Answered(c, "generateRecipes") /\ ~NoText(TextOf(c))) =>
            /\ ~JSONParse(TextOf(c).val).ok =>
                   (pc[c] = "failed" /\ outcome[c] = Error("SyntaxError"))
            /\ Count(TextOf(c).val, LBracket) # Count(TextOf(c).val, RBracket)
                   => (pc[c] = "failed" /\ outcome[c].tag = "error")

\* The truncated array "[A," has ended the call in an error.
C3_Witness ==
    \E c \in Calls :
        /\ Answered(c, "generateRecipes")
        /\ TextOf(c) = Some(<<LBracket, ObjA, Comma>>)
        /\ pc[c] = "failed"
        /\ outcome[c].tag = "error"

\* --- generateRecipeImage ---

\* The parts of the n-th candidate of the response, none when the response
\* has no such candidate or the candidate has no content or no parts.
CandidateParts(resp, n) ==
    IF resp.candidates.some /\ n <= Len(resp.candidates.val)
       /\ resp.candidates.val[n].content.some
       /\ resp.candidates.val[n].content.val.parts.some
    THEN resp.candidates.val[n].content.val.parts.val
    ELSE <<>>

\* The inline payloads of a list of parts, by position.
InlineAt(parts) == {i \in 1..Len(parts) : parts[i].inlineData.some}

\* Some part of some candidate of the response holds an inline payload.
HasInlineAnywhere(resp) ==
    /\ resp.candidates.some
    /\ \E n \in 1..Len(resp.candidates.val) :
           InlineAt(CandidateParts(resp, n)) # {}

\* The first inline payload of the response in candidate-then-part order.
FirstInlineAnywhere(resp) ==
    LET n == Nth({m \in 1..Len(resp.candidates.val) :
                     InlineAt(CandidateParts(resp, m)) # {}}, 1)
        ps == CandidateParts(resp, n)
    IN ps[Nth(InlineAt(ps), 1)].inlineData.val.data

\* C5 as stated: the placeholder URL is returned only when no part of any
\* candidate holds an inline payload; otherwise the data URI of the first
\* payload of the response, in candidate-then-part order, is returned.
C5_AnyCandidateImage ==
    \A c \in Calls :
        Answered(c, "generateRecipeImage") =>
            outcome[c] =
                IF HasInlineAnywhere(response[c].res)
                THEN Value("data:image/png;base64,"
                               \o FirstInlineAnywhere(response[c].res))
                ELSE Value(PlaceholderUrl(title[c].val))

\* C5, amended: only the first candidate is looked at.  The placeholder URL
\* is returned exactly when no part of the first candidate holds an inline
\* payload (inline payloads of later candidates are ignored); otherwise the
\* data URI of the first inline payload among the parts of the first
\* candidate is returned.
C5_FirstCandidateImage ==
    \A c \in Calls :
        Answered(c, "generateRecipeImage") =>
            LET ps == CandidateParts(response[c].res, 1) IN
            /\ pc[c] = "returned"
            /\ outcome[c] =
                   IF InlineAt(ps) # {}
                   THEN Value("data:image/png;base64,"
                                  \o ps[Nth(InlineAt(ps), 1)].inlineData.val.data)
                   ELSE Value(PlaceholderUrl(title[c].val))

\* A response whose first candidate has no inline payload and whose second
\* candidate has one has been answered with the placeholder URL.
C5_Witness ==
    \E c \in Calls :
        /\ Answered(c, "generateRecipeImage")
        /\ InlineAt(CandidateParts(response[c].res, 1)) = {}
        /\ InlineAt(CandidateParts(response[c].res, 2)) # {}
        /\ outcome[c] = Value(PlaceholderUrl(title[c].val))

\* C7: in every interleaving of concurrent generateRecipeImage calls the
\* result of a call is a function of its own title and of the response to
\* its own request: the placeholder URL of its own encoded title when the
\* response gives no inline image (one URL per title), else the data URI of
\* that image; the other calls have no part in it.
C7_ResultFromOwnTitleAndResponse ==
    /\ \A c \in Calls :
           Answered(c, "generateRecipeImage") =>
               LET ps == CandidateParts(response[c].res, 1) IN
               /\ outcome[c].tag = "value"
               /\ InlineAt(ps) # {} =>
                      outcome[c].val = "data:image/png;base64,"
                          \o ps[Nth(InlineAt(ps), 1)].inlineData.val.data
               /\ InlineAt(ps) = {} =>
                      outcome[c].val = "https://picsum.photos/seed/"
                          \o encodeURIComponent(title[c].val) \o "/600/600"
               /\ (InlineAt(ps) = {} /\ title[c].val = <<"a", " ", "a">>) =>
                      outcome[c].val = "https://picsum.photos/seed/a%20a/600/600"
    /\ \A c, d \in Calls :
           (/\ Answered(c, "generateRecipeImage")
            /\ Answered(d, "generateRecipeImage")
            /\ title[c] = title[d]
            /\ InlineAt(CandidateParts(response[c].res, 1)) = {}
            /\ InlineAt(CandidateParts(response[d].res, 1)) = {})
           => outcome[c] = outcome[d]

\* Two calls with different titles have both returned, one with the
\* placeholder URL of its own title, the other with the image it was sent.
C7_Witness ==
    \E c, d \in Calls :
        /\ c < d
        /\ Answered(c, "generateRecipeImage")
        /\ Answered(d, "generateRecipeImage")
        /\ title[c] = Some(<<"a", " ", "a">>)
        /\ title[d] = Some(<<"&">>)
        /\ outcome[c] = Value("https://picsum.photos/seed/a%20a/600/600")
        /\ outcome[d] = Value("data:image/png;base64,QUJD")

\* --- all three functions ---

Functions ==
    {"detectIngredientsFromImage", "generateRecipes", "generateRecipeImage"}

\* C6: when the request of a call is rejected, the call ends in that very
\* failure and returns no value: no placeholder URL, no recipe list, no
\* ingredient list.
C6_RejectionPropagates ==
    \A c \in Calls :
        (op[c] \in Functions /\ response[c] # None
            /\ response[c].settled = "rejected")
        => /\ pc[c] = "failed"
           /\ outcome[c] = Error(response[c].reason)

\* A generateRecipeImage call has failed with the error of its request
\* while a call of another function has failed with the error of its own.
C6_Witness ==
    \E c, d \in Calls :
        /\ op[c] = "generateRecipeImage"
        /\ op[d] \in Functions \ {"generateRecipeImage"}
        /\ response[c] = Rejected("network")
        /\ response[d] = Rejected("quota")
        /\ outcome[c] = Error("network")
        /\ outcome[d] = Error("quota")

\* C10: every invocation issues exactly one request, on every path: a call
\* that has started has issued one request and never issues another, and
\* the step that settles the request ends the call in a value or an error.
C10_OneRequestPerCall ==
    /\ [](\A c \in Calls :
             /\ requests[c] = IF pc[c] = "idle" THEN 0 ELSE 1
             /\ inflight[c].some <=> pc[c] = "awaiting"
             /\ pc[c] \in {"returned", "failed"} => response[c] # None)
    /\ [][\A c \in Calls :
             /\ requests[c] = 1 => requests'[c] = 1
             /\ (pc[c] = "awaiting" /\ response'[c] # response[c]) =>
                    pc'[c] \in {"returned", "failed"}
             /\ pc[c] \in {"returned", "failed"} =>
                    (pc'[c] = pc[c] /\ outcome'[c] = outcome[c])]_vars

\* One call has returned a value and another has failed on a rejected
\* request, each after a single request.
C10_Witness ==
    \E c, d \in Calls :
        /\ pc[c] = "returned"
        /\ pc[d] = "failed"
        /\ response[d].settled = "rejected"
        /\ requests[c] = 1
        /\ requests[d] = 1

=============================================================================
